---- MODULE Spec2Model ----
(***************************************************************************)
(* Lifecycle of the smc_account resource of terraform-provider-smc:        *)
(* AccountResource.Create / Read / Update / Delete / ImportState against   *)
(* the SMC REST client, the projection readAccountResourceModel, and the   *)
(* Terraform state the plugin framework keeps for one resource instance.   *)
(***************************************************************************)
EXTENDS Integers, Sequences, FiniteSets, TLC

(***************************************************************************)
(* Bounds of the model.                                                    *)
(***************************************************************************)
\* the clock is read in ticks 0..MaxNow
MaxNow == 2
\* the accounts list of a response has at most MaxAccounts elements
MaxAccounts == 2

(***************************************************************************)
(* Program constants.                                                      *)
(***************************************************************************)
StatusOK == 200
StatusCreated == 201
StatusNotFound == 404
\* clock ticks per second: time.RFC850 prints whole seconds only
TicksPerSecond == 2

(***************************************************************************)
(* Framework values: types.String, types.Bool and types.List are a state   *)
(* (null, unknown, known) and a value.  Go pointers of the wire struct are *)
(* sequences of length at most one: <<>> is nil, <<x>> points to x.        *)
(***************************************************************************)
StringNull == [state |-> "null", value |-> ""]
StringUnknown == [state |-> "unknown", value |-> ""]
StringValue(s) == [state |-> "known", value |-> s]
StringPointerValue(p) == IF p = <<>> THEN StringNull ELSE StringValue(p[1])

BoolNull == [state |-> "null", value |-> FALSE]
BoolValue(b) == [state |-> "known", value |-> b]
BoolPointerValue(p) == IF p = <<>> THEN BoolNull ELSE BoolValue(p[1])

ListNull == [state |-> "null", elements |-> <<>>]
ListValue(elems) == [state |-> "known", elements |-> elems]

IsNull(v) == v.state = "null"
IsUnknown(v) == v.state = "unknown"

\* types.String.ValueString(): the raw string, "" for null and unknown
ValueString(v) == IF v.state = "known" THEN v.value ELSE ""

\* types.String.String(): the human-readable form, a known value is quoted
String(v) ==
    IF v.state = "unknown" THEN "<unknown>"
    ELSE IF v.state = "null" THEN "<null>"
    ELSE "\"" \o v.value \o "\""

\* http.Response.Status for a status code
Status(code) ==
    IF code = StatusOK THEN "200 OK"
    ELSE IF code = StatusCreated THEN "201 Created"
    ELSE IF code = StatusNotFound THEN "404 Not Found"
    ELSE "000"

\* time.Now().Format(time.RFC850): the reading t of the clock, to the second
FormatRFC850(t) == ToString(t \div TicksPerSecond)

(***************************************************************************)
(* The wire shape smc.DefinitionsAccountsAccountPropertiesWithoutPassword  *)
(* as the client hands it to the provider.                                 *)
(***************************************************************************)
FullAccount(d, f, u) ==
    [Description |-> <<d>>, Dn |-> <<"CN=bob,DC=company,DC=world">>,
     Email |-> <<"user@email.com">>, Folders |-> f,
     Identifier |-> <<"jdoe">>, Kind |-> <<"user">>, LocalAuth |-> <<TRUE>>,
     Name |-> <<"Some Account name">>, Permissions |-> << <<"smc">> >>,
     Uuid |-> u]

SparseAccount(f, u) ==
    [Description |-> <<>>, Dn |-> <<>>, Email |-> <<>>, Folders |-> f,
     Identifier |-> <<>>, Kind |-> <<>>, LocalAuth |-> <<>>, Name |-> <<>>,
     Permissions |-> <<>>, Uuid |-> u]

Uuids == {"u1", "u2"}
Descriptions == {"some user description", "some another description"}
\* *[]string of a response: nil, an empty list, a list of two folders
WireFolders == {<<>>, << <<>> >>, << <<"f1", "f2">> >>}

\* the account of the acceptance test double
TestAccount ==
    FullAccount("some user description", << <<"f1", "f2">> >>, "u1")

\* the same account under another uuid
OtherAccount ==
    FullAccount("some user description", << <<"f1", "f2">> >>, "u2")

\* the same account without a uuid key: Uuid is a plain string and decodes
\* to the empty string
NoUuidAccount ==
    FullAccount("some user description", << <<"f1", "f2">> >>, "")

Accounts ==
    {FullAccount(d, f, "u1") : d \in Descriptions, f \in WireFolders}
    \cup {SparseAccount(f, "u1") : f \in WireFolders}
    \cup {OtherAccount, NoUuidAccount}

(***************************************************************************)
(* AccountResourceModel: the record of the resource in plan and state.     *)
(***************************************************************************)
StringList(s) == ListValue([i \in 1..Len(s) |-> StringValue(s[i])])

\* the plan Terraform hands to Create and Update for a configuration: the
\* optional attributes are the configuration's, the computed ones (uuid,
\* last_updated) have no plan modifier and are unknown
PlanOf(description, folders, password) ==
    [Description |-> description,
     DN          |-> StringValue("CN=bob,DC=company,DC=world"),
     Email       |-> StringValue("user@email.com"),
     Folders     |-> folders,
     Identifier  |-> StringValue("jdoe"),
     Kind        |-> StringValue("user"),
     LastUpdated |-> StringUnknown,
     LocalAuth   |-> BoolValue(TRUE),
     Name        |-> StringValue("Some Account name"),
     Password    |-> password,
     Permissions |-> StringList(<<"smc">>),
     UUID        |-> StringUnknown]

PlanDescriptions == {StringValue(d) : d \in Descriptions}
PlanFolders == {ListNull, StringList(<<"f1">>)}
\* the bcrypt hash of the acceptance test's configuration
TestPassword == "$2a$10$HM7zy3pUuoyKwnaFk4A4W.9gLQZ3BGWeJqwdlPiOJN6TayLbSQ1Na"

PlanPasswords == {StringNull, StringValue(TestPassword)}

Plans ==
    {PlanOf(d, f, p) : d \in PlanDescriptions, f \in PlanFolders,
                       p \in PlanPasswords}

\* mutant: the import stamps last_updated like a projection does
ImportedModel_Stamped(id) ==
    [Description |-> StringNull, DN |-> StringNull, Email |-> StringNull,
     Folders |-> ListNull, Identifier |-> StringNull, Kind |-> StringNull,
     LastUpdated |-> StringValue("0"), LocalAuth |-> BoolNull,
     Name |-> StringNull, Password |-> StringNull, Permissions |-> ListNull,
     UUID |-> StringValue(id)]

\* the state ImportStatePassthroughID writes: only uuid is set
ImportedModel(id) ==
    [Description |-> StringNull, DN |-> StringNull, Email |-> StringNull,
     Folders |-> ListNull, Identifier |-> StringNull, Kind |-> StringNull,
     LastUpdated |-> StringNull, LocalAuth |-> BoolNull, Name |-> StringNull,
     Password |-> StringNull, Permissions |-> ListNull,
     UUID |-> StringValue(id)]

\* json.Marshal of an AccountResourceModel: every field is a framework
\* struct without exported fields, which encodes as an empty object
JSONMarshal(data) ==
    [description |-> "{}", dn |-> "{}", email |-> "{}", folders |-> "{}",
     identifier |-> "{}", kind |-> "{}", last_updated |-> "{}",
     local_auth |-> "{}", name |-> "{}", password |-> "{}",
     permissions |-> "{}", uuid |-> "{}"]

(***************************************************************************)
(* readAccountResourceModel: the projection of a wire account into data,   *)
(* stamped with the clock reading t.                                       *)
(***************************************************************************)
\* mutant: the description of the response is not projected
readAccountResourceModel_KeepsDescription(data, item, t) ==
    [data EXCEPT
        !.DN          = StringPointerValue(item.Dn),
        !.Email       = StringPointerValue(item.Email),
        !.Folders     = IF item.Folders # <<>>
                        THEN StringList(item.Folders[1]) ELSE @,
        !.Identifier  = StringPointerValue(item.Identifier),
        !.Kind        = StringPointerValue(item.Kind),
        !.LocalAuth   = BoolPointerValue(item.LocalAuth),
        !.Name        = StringPointerValue(item.Name),
        !.Permissions = IF item.Permissions # <<>>
                        THEN StringList(item.Permissions[1]) ELSE @,
        !.UUID        = StringValue(item.Uuid),
        !.LastUpdated = StringValue(FormatRFC850(t))]

\* mutant: the folders of the response are added to those of the record
readAccountResourceModel_AppendsFolders(data, item, t) ==
    [data EXCEPT
        !.Description = StringPointerValue(item.Description),
        !.DN          = StringPointerValue(item.Dn),
        !.Email       = StringPointerValue(item.Email),
        !.Folders     = IF item.Folders # <<>>
                        THEN ListValue(@.elements \o StringList(item.Folders[1]).elements)
                        ELSE @,
        !.Identifier  = StringPointerValue(item.Identifier),
        !.Kind        = StringPointerValue(item.Kind),
        !.LocalAuth   = BoolPointerValue(item.LocalAuth),
        !.Name        = StringPointerValue(item.Name),
        !.Permissions = IF item.Permissions # <<>>
                        THEN StringList(item.Permissions[1]) ELSE @,
        !.UUID        = StringValue(item.Uuid),
        !.LastUpdated = StringValue(FormatRFC850(t))]

\* mutant: the projection resets the password, which the response never carries
readAccountResourceModel_ClearsPassword(data, item, t) ==
    [data EXCEPT
        !.Description = StringPointerValue(item.Description),
        !.DN          = StringPointerValue(item.Dn),
        !.Email       = StringPointerValue(item.Email),
        !.Folders     = IF item.Folders # <<>>
                        THEN StringList(item.Folders[1]) ELSE @,
        !.Identifier  = StringPointerValue(item.Identifier),
        !.Kind        = StringPointerValue(item.Kind),
        !.LocalAuth   = BoolPointerValue(item.LocalAuth),
        !.Name        = StringPointerValue(item.Name),
        !.Password    = StringNull,
        !.Permissions = IF item.Permissions # <<>>
                        THEN StringList(item.Permissions[1]) ELSE @,
        !.UUID        = StringValue(item.Uuid),
        !.LastUpdated = StringValue(FormatRFC850(t))]

readAccountResourceModel(data, item, t) ==
    [data EXCEPT
        !.Description = StringPointerValue(item.Description),
        !.DN          = StringPointerValue(item.Dn),
        !.Email       = StringPointerValue(item.Email),
        !.Folders     = IF item.Folders # <<>>
                        THEN StringList(item.Folders[1]) ELSE @,
        !.Identifier  = StringPointerValue(item.Identifier),
        !.Kind        = StringPointerValue(item.Kind),
        !.LocalAuth   = BoolPointerValue(item.LocalAuth),
        !.Name        = StringPointerValue(item.Name),
        !.Permissions = IF item.Permissions # <<>>
                        THEN StringList(item.Permissions[1]) ELSE @,
        !.UUID        = StringValue(item.Uuid),
        !.LastUpdated = StringValue(FormatRFC850(t))]

(***************************************************************************)
(* Responses of smc.ClientWithResponses as the handlers see them: err is   *)
(* the transport error (a cancelled context included), StatusCode the HTTP *)
(* status, JSON the parsed body (JSON201 for POST, JSON200 otherwise), nil *)
(* when no body was parsed.                                                *)
(***************************************************************************)
Statuses == {StatusOK, StatusCreated, StatusNotFound}

TransportError == [err |-> TRUE, StatusCode |-> 0, JSON |-> <<>>]
NoResponse == [err |-> FALSE, StatusCode |-> 0, JSON |-> <<>>]

Response(s, j) == [err |-> FALSE, StatusCode |-> s, JSON |-> j]

\* {result, success} envelopes of POST, PUT and DELETE
Envelope(a) == <<[Result |-> <<a>>]>>
EnvelopeNoResult == <<[Result |-> <<>>]>>

BaseEnvelopeResponses ==
    {TransportError}
    \cup {Response(s, j) : s \in Statuses,
                           j \in {<<>>, EnvelopeNoResult, Envelope(TestAccount)}}

EnvelopeResponses(ok) ==
    BaseEnvelopeResponses \cup {Response(ok, Envelope(a)) : a \in Accounts}

\* the bare account of GET /accounts/{uuid}
BareResponses ==
    {TransportError}
    \cup {Response(s, j) : s \in Statuses, j \in {<<>>, <<TestAccount>>}}
    \cup {Response(StatusOK, <<a>>) : a \in Accounts}

(***************************************************************************)
(* State.                                                                  *)
(***************************************************************************)
VARIABLES
    state,      \* Terraform state of the resource: <<>> or <<AccountResourceModel>>
    diags,      \* resp.Diagnostics of the last operation
    op,         \* the last operation
    plan,       \* req.Plan of the last operation: <<>> or <<AccountResourceModel>>
    respAPI,    \* the response the client returned to the last operation
    requests,   \* the HTTP requests the last operation issued
    now,        \* the last reading of the clock
    req,        \* what else the last operation was called with, and what it called
    accounts,   \* state of the smc_accounts data source: <<>> or <<list>>
    client,     \* the client the provider published: <<>> or <<client>>
    account,    \* state of the smc_account data source: <<>> or <<AccountDataSourceModel>>
    previous,   \* the operation before the last one, where a run keeps it
    instances   \* the resource instances of a run with several of them

vars == <<state, diags, op, plan, respAPI, requests, now, req, accounts, client,
          account, previous, instances>>

\* the variables of the smc_account resource instance
resourceVars == <<state, plan, now>>

NoReq == [ID |-> ""]

Absent == <<>>
Present(data) == <<data>>

Diag(summary, detail) ==
    [severity |-> "error", summary |-> summary, detail |-> detail]

HasError(ds) == \E i \in 1..Len(ds) : ds[i].severity = "error"

Request(method, path, body) ==
    [method |-> method, path |-> path, body |-> body]

NoBody == [description |-> "", dn |-> "", email |-> "", folders |-> "",
           identifier |-> "", kind |-> "", last_updated |-> "",
           local_auth |-> "", name |-> "", password |-> "",
           permissions |-> "", uuid |-> ""]

\* the resource blocks of a configuration with two of them
InstanceIds == {1, 2}

\* an instance before its first operation: no record, no invocation running;
\* alone is what its operations give when nothing else runs
IdleInstance ==
    [state |-> Absent, diags |-> <<>>, call |-> <<>>,
     alone |-> [state |-> Absent, diags |-> <<>>]]

Init ==
    /\ state = Absent
    /\ diags = <<>>
    /\ op = "Init"
    /\ plan = <<>>
    /\ respAPI = NoResponse
    /\ requests = <<>>
    /\ now = 0
    /\ req = NoReq
    /\ accounts = <<>>
    /\ client = <<>>
    /\ account = <<>>
    /\ previous = <<>>
    /\ instances = [i \in InstanceIds |-> IdleInstance]

\* time.Now() never runs backwards; the clock stops at MaxNow
ClockReadings == {t \in now..(now + 1) : t <= MaxNow}

\* the clock is read by readAccountResourceModel alone: a call that ends
\* with an error before the projection has not read it
ClockRead(ds, t) ==
    IF HasError(ds) THEN t = now /\ UNCHANGED now ELSE now' = t

(***************************************************************************)
(* AccountResource.Create                                                  *)
(***************************************************************************)
\* mutant: any 2xx status counts as created
CreateStatusOK_Any2xx(resp) == resp.StatusCode \in {StatusOK, StatusCreated}

CreateStatusOK(resp) == resp.StatusCode = StatusCreated

CreateHasResult(resp) == resp.JSON # <<>> /\ resp.JSON[1].Result # <<>>

\* the diagnostics and resp.State Create ends with; resp.State starts null
CreateOutcome(data, resp, t) ==
    IF resp.err
    THEN [diags |-> <<Diag("Error Creating the SMC Account",
                           <<"Could not read the SMC account identifier ",
                             ValueString(data.Identifier), ": ", "err">>)>>,
          state |-> Absent]
    ELSE IF ~CreateStatusOK(resp)
    THEN [diags |-> <<Diag("HTTP Error Creating the SMC Account",
                           <<"HTTP status code ", Status(resp.StatusCode),
                             " returned while creating the SMC account">>)>>,
          state |-> Absent]
    ELSE IF ~CreateHasResult(resp)
    THEN [diags |-> <<Diag("No results Reading response after creating the SMC Account",
                           <<"No results returned after creating SMC the Account">>)>>,
          state |-> Absent]
    ELSE [diags |-> <<>>,
          state |-> Present(readAccountResourceModel(data, resp.JSON[1].Result[1], t))]

Create(data, resp, t) ==
    /\ state = Absent
    /\ LET out == CreateOutcome(data, resp, t) IN
        /\ state' = out.state
        /\ diags' = out.diags
        /\ ClockRead(out.diags, t)
    /\ requests' = <<Request("POST", <<"accounts">>, JSONMarshal(data))>>
    /\ op' = "Create"
    /\ req' = NoReq
    /\ UNCHANGED <<accounts, client, account, instances>>
    /\ plan' = <<data>>
    /\ respAPI' = resp

(***************************************************************************)
(* AccountResource.Read                                                    *)
(***************************************************************************)
\* mutant: a null body on 200 silently drops the resource from state
ReadOutcome_DropsVanished(data, resp, t) ==
    IF resp.err
    THEN [diags |-> <<Diag("Error Reading the SMC Account",
                           <<"Could not read the SMC account with UUID ",
                             String(data.UUID), ": ", "err">>)>>,
          state |-> Present(data)]
    ELSE IF resp.StatusCode # StatusOK
    THEN [diags |-> <<Diag("HTTP Error Reading the SMC Account",
                           <<"HTTP status code ", Status(resp.StatusCode),
                             " returned while reading the SMC account">>)>>,
          state |-> Present(data)]
    ELSE IF resp.JSON = <<>>
    THEN [diags |-> <<>>, state |-> Absent]
    ELSE [diags |-> <<>>,
          state |-> Present(readAccountResourceModel(data, resp.JSON[1], t))]

ReadStatusOK(resp) == resp.StatusCode = StatusOK

\* resp.State starts as the prior state
ReadOutcome(data, resp, t) ==
    IF resp.err
    THEN [diags |-> <<Diag("Error Reading the SMC Account",
                           <<"Could not read the SMC account with UUID ",
                             String(data.UUID), ": ", "err">>)>>,
          state |-> Present(data)]
    ELSE IF ~ReadStatusOK(resp)
    THEN [diags |-> <<Diag("HTTP Error Reading the SMC Account",
                           <<"HTTP status code ", Status(resp.StatusCode),
                             " returned while reading the SMC account">>)>>,
          state |-> Present(data)]
    ELSE IF resp.JSON = <<>>
    THEN [diags |-> <<Diag("No result Reading the SMC Account",
                           <<"No result returned after reading the SMC Account">>)>>,
          state |-> Present(data)]
    ELSE [diags |-> <<>>,
          state |-> Present(readAccountResourceModel(data, resp.JSON[1], t))]

Read(resp, t) ==
    /\ state # Absent
    /\ LET data == state[1]
           out == ReadOutcome(data, resp, t) IN
        /\ state' = out.state
        /\ diags' = out.diags
        /\ requests' = <<Request("GET", <<"accounts", ValueString(data.UUID)>>, NoBody)>>
        /\ ClockRead(out.diags, t)
    /\ op' = "Read"
    /\ req' = NoReq
    /\ UNCHANGED <<accounts, client, account, instances>>
    /\ plan' = <<>>
    /\ respAPI' = resp

(***************************************************************************)
(* AccountResource.Update                                                  *)
(***************************************************************************)
\* mutant: 201 counts as updated, too
UpdateStatusOK_AcceptsCreated(resp) == resp.StatusCode \in {StatusOK, StatusCreated}

UpdateStatusOK(resp) == resp.StatusCode = StatusOK

UpdateHasResult(resp) == resp.JSON # <<>> /\ resp.JSON[1].Result # <<>>

\* mutant: the plan is saved although the status is not 200
UpdateOutcome_SavesPlanOnError(prior, data, resp, t) ==
    IF resp.err
    THEN [diags |-> <<Diag("Error Updating the SMC Account",
                           <<"Could not update the SMC account UUID ",
                             String(data.UUID), ": ", "err">>)>>,
          state |-> prior]
    ELSE IF resp.StatusCode # StatusOK
    THEN [diags |-> <<Diag("HTTP Error Updating the SMC Account",
                           <<"HTTP status code ", Status(resp.StatusCode),
                             " returned while updating the SMC account">>)>>,
          state |-> Present(data)]
    ELSE IF resp.JSON = <<>> \/ resp.JSON[1].Result = <<>>
    THEN [diags |-> <<Diag("No results Reading response after updating the SMC Account",
                           <<"No results returned after updating the SMC Account">>)>>,
          state |-> prior]
    ELSE [diags |-> <<>>,
          state |-> Present(readAccountResourceModel(data, resp.JSON[1].Result[1], t))]

\* resp.State starts as the prior state
UpdateOutcome(prior, data, resp, t) ==
    IF resp.err
    THEN [diags |-> <<Diag("Error Updating the SMC Account",
                           <<"Could not update the SMC account UUID ",
                             String(data.UUID), ": ", "err">>)>>,
          state |-> prior]
    ELSE IF ~UpdateStatusOK(resp)
    THEN [diags |-> <<Diag("HTTP Error Updating the SMC Account",
                           <<"HTTP status code ", Status(resp.StatusCode),
                             " returned while updating the SMC account">>)>>,
          state |-> prior]
    ELSE IF ~UpdateHasResult(resp)
    THEN [diags |-> <<Diag("No results Reading response after updating the SMC Account",
                           <<"No results returned after updating the SMC Account">>)>>,
          state |-> prior]
    ELSE [diags |-> <<>>,
          state |-> Present(readAccountResourceModel(data, resp.JSON[1].Result[1], t))]

Update(data, resp, t) ==
    /\ state # Absent
    /\ LET out == UpdateOutcome(state, data, resp, t) IN
        /\ state' = out.state
        /\ diags' = out.diags
        /\ ClockRead(out.diags, t)
    /\ requests' = <<Request("PUT", <<"accounts", String(data.UUID)>>, JSONMarshal(data))>>
    /\ op' = "Update"
    /\ req' = NoReq
    /\ UNCHANGED <<accounts, client, account, instances>>
    /\ plan' = <<data>>
    /\ respAPI' = resp

(***************************************************************************)
(* AccountResource.Delete: the framework removes the resource from state   *)
(* when Delete returns without an error diagnostic.                        *)
(***************************************************************************)
\* mutant: an account the remote no longer has counts as deleted
DeleteStatusOK_GoneIsDeleted(resp) == resp.StatusCode \in {StatusOK, StatusNotFound}

DeleteStatusOK(resp) == resp.StatusCode = StatusOK

\* mutant: the result of the envelope is not looked at
DeleteHasResult_IgnoresResult(resp) == resp.JSON # <<>>

DeleteHasResult(resp) == resp.JSON # <<>> /\ resp.JSON[1].Result # <<>>

DeleteDiags(data, resp) ==
    IF resp.err
    THEN <<Diag("Error Deleting the SMC Account",
                <<"Could not delete the SMC account UUID ",
                  String(data.UUID), ": ", "err">>)>>
    ELSE IF ~DeleteStatusOK(resp)
    THEN <<Diag("HTTP Error Deleting the SMC Account",
                <<"HTTP status code ", Status(resp.StatusCode),
                  " returned while deleting the SMC account">>)>>
    ELSE IF ~DeleteHasResult(resp)
    THEN <<Diag("No results Reading response after deleting the SMC Account",
                <<"No results returned after deleting SMC the Account">>)>>
    ELSE <<>>

\* mutant: the request is sent a second time
DeleteRequests_Twice(data) ==
    <<Request("DELETE", <<"accounts", String(data.UUID)>>, NoBody),
      Request("DELETE", <<"accounts", String(data.UUID)>>, NoBody)>>

DeleteRequests(data) ==
    <<Request("DELETE", <<"accounts", String(data.UUID)>>, NoBody)>>

Delete(resp) ==
    /\ state # Absent
    /\ LET data == state[1]
           ds == DeleteDiags(data, resp) IN
        /\ diags' = ds
        /\ state' = IF HasError(ds) THEN state ELSE Absent
        /\ requests' = DeleteRequests(data)
    /\ op' = "Delete"
    /\ req' = NoReq
    /\ UNCHANGED <<accounts, client, account, instances>>
    /\ plan' = <<>>
    /\ respAPI' = resp
    /\ UNCHANGED now

(***************************************************************************)
(* AccountResource.ImportState                                             *)
(***************************************************************************)
ImportState(id) ==
    /\ state = Absent
    /\ state' = Present(ImportedModel(id))
    /\ diags' = <<>>
    /\ requests' = <<>>
    /\ op' = "ImportState"
    /\ req' = [ID |-> id]
    /\ UNCHANGED <<accounts, client, account, instances>>
    /\ plan' = <<>>
    /\ respAPI' = NoResponse
    /\ UNCHANGED now

DoCreate ==
    \E data \in Plans, resp \in EnvelopeResponses(StatusCreated), t \in ClockReadings :
        Create(data, resp, t) /\ UNCHANGED previous

DoRead ==
    \E resp \in BareResponses, t \in ClockReadings :
        Read(resp, t) /\ UNCHANGED previous

DoUpdate ==
    \E data \in Plans, resp \in EnvelopeResponses(StatusOK), t \in ClockReadings :
        Update(data, resp, t) /\ UNCHANGED previous

DoDelete == \E resp \in BaseEnvelopeResponses : Delete(resp) /\ UNCHANGED previous

DoImportState == \E id \in Uuids : ImportState(id) /\ UNCHANGED previous

Next == DoCreate \/ DoRead \/ DoUpdate \/ DoDelete \/ DoImportState

Spec == Init /\ [][Next]_vars

TypeOK ==
    /\ Len(state) <= 1
    /\ op \in {"Init", "Create", "Read", "Update", "Delete", "ImportState",
              "AccountsRead", "Configure", "DeclareResource",
              "DeclareDataSource", "ValidateConfig", "RoundTrip", "Begin", "End",
              "DataSourceRead"}
    /\ now \in 0..MaxNow
    /\ Len(requests) <= 1

(***************************************************************************)
(* Properties.                                                             *)
(***************************************************************************)
\* the response carries a status s and an envelope with a non-null result
EnvelopeOK(resp, s) ==
    /\ ~resp.err
    /\ resp.StatusCode = s
    /\ resp.JSON # <<>>
    /\ resp.JSON[1].Result # <<>>

Succeeded == ~HasError(diags)

\* some part of the detail of some diagnostic is the string x
Carries(ds, x) ==
    \E i \in 1..Len(ds) : \E k \in 1..Len(ds[i].detail) : ds[i].detail[k] = x

\* C1: Create succeeds, writing a record, exactly when the POST response has
\* status 201 and an envelope with a non-null result; after any other
\* response it ends with an error diagnostic and no record is written.
C1_CreateSucceedsIff201WithResult ==
    op = "Create" =>
        IF EnvelopeOK(respAPI, StatusCreated)
        THEN Succeeded /\ state # Absent
        ELSE HasError(diags) /\ state = Absent

\* a Create answered 200 with a well-formed result has failed
C1_Witness ==
    /\ op = "Create"
    /\ EnvelopeOK(respAPI, StatusOK)
    /\ HasError(diags)
    /\ state = Absent

\* C2: a Create, Update or Delete that ends with an error leaves the stored
\* record as it was before the call: Absent stays Absent, Present keeps its
\* record.
C2_FailureLeavesRecord ==
    [][(op' \in {"Create", "Update", "Delete"} /\ HasError(diags'))
        => state' = state]_vars

\* an Update answered 404 has left a record that differs from its plan
C2_Witness ==
    /\ op = "Update"
    /\ HasError(diags)
    /\ respAPI.StatusCode = StatusNotFound
    /\ state # Absent
    /\ state[1].Description # plan[1].Description
    /\ state[1].Password # plan[1].Password

\* C3: after a successful Create the stored uuid is the result's uuid, every
\* field the result carries holds the result's value, and lastUpdated is set.
C3_CreateProjectsResult ==
    (op = "Create" /\ Succeeded) =>
        LET item == respAPI.JSON[1].Result[1]
            data == state[1]
        IN  /\ data.UUID = StringValue(item.Uuid)
            /\ item.Identifier # <<>> => data.Identifier = StringValue(item.Identifier[1])
            /\ item.Kind # <<>> => data.Kind = StringValue(item.Kind[1])
            /\ item.Name # <<>> => data.Name = StringValue(item.Name[1])
            /\ item.Description # <<>> => data.Description = StringValue(item.Description[1])
            /\ item.Dn # <<>> => data.DN = StringValue(item.Dn[1])
            /\ item.Email # <<>> => data.Email = StringValue(item.Email[1])
            /\ item.LocalAuth # <<>> => data.LocalAuth = BoolValue(item.LocalAuth[1])
            /\ item.Folders # <<>> => data.Folders = StringList(item.Folders[1])
            /\ item.Permissions # <<>> => data.Permissions = StringList(item.Permissions[1])
            /\ data.LastUpdated = StringValue(FormatRFC850(now))

\* a Create has succeeded with a result whose description and folders are
\* not the plan's
C3_Witness ==
    /\ op = "Create"
    /\ Succeeded
    /\ respAPI.JSON[1].Result[1].Description # <<>>
    /\ plan[1].Description # StringValue(respAPI.JSON[1].Result[1].Description[1])
    /\ respAPI.JSON[1].Result[1].Folders # <<>>
    /\ plan[1].Folders # state[1].Folders

\* the attributes of the record a caller can set
SetByCaller(data) ==
    {f \in {"Description", "DN", "Email", "Folders", "Identifier", "Kind",
            "LocalAuth", "Name", "Password", "Permissions"} :
        data[f].state = "known"}

\* C4: after a successful Update every field the caller set in the desired
\* record holds the desired value in the stored record, whatever the PUT
\* response echoes.
C4_UpdateKeepsDesired ==
    (op = "Update" /\ Succeeded) =>
        \A f \in SetByCaller(plan[1]) : state[1][f] = plan[1][f]

\* the record a response alone determines, password and lastUpdated aside
ProjectionOf(item) ==
    [Description |-> StringPointerValue(item.Description),
     DN          |-> StringPointerValue(item.Dn),
     Email       |-> StringPointerValue(item.Email),
     Folders     |-> IF item.Folders = <<>> THEN ListNull
                     ELSE StringList(item.Folders[1]),
     Identifier  |-> StringPointerValue(item.Identifier),
     Kind        |-> StringPointerValue(item.Kind),
     LocalAuth   |-> BoolPointerValue(item.LocalAuth),
     Name        |-> StringPointerValue(item.Name),
     Permissions |-> IF item.Permissions = <<>> THEN ListNull
                     ELSE StringList(item.Permissions[1]),
     UUID        |-> StringValue(item.Uuid)]

\* the wire account of the last response: bare for Read, in the envelope
\* otherwise
ResponseItem == IF op = "Read" THEN respAPI.JSON[1] ELSE respAPI.JSON[1].Result[1]

\* C5: after a successful Read or Update every field other than password and
\* lastUpdated is what the response carries for it; a scalar or list the
\* response omits is unset.
C5_RemoteAuthoritative ==
    (op \in {"Read", "Update"} /\ Succeeded) =>
        \A f \in DOMAIN ProjectionOf(ResponseItem) :
            state[1][f] = ProjectionOf(ResponseItem)[f]

\* C6: a successful Create or Update stores the password of its plan, a
\* successful Read keeps the stored password, and Import leaves it unset: the
\* password is always the one the caller last supplied.
C6_PasswordRetained ==
    [][(~HasError(diags') /\ state' # Absent) =>
        /\ op' \in {"Create", "Update"} => state'[1].Password = plan'[1].Password
        /\ op' = "Read" => state'[1].Password = state[1].Password
        /\ op' = "ImportState" => state'[1].Password = StringNull]_vars

\* a Read whose response has no field but uuid has kept a set password
C6_Witness ==
    /\ op = "Read"
    /\ Succeeded
    /\ respAPI.JSON[1].Description = <<>>
    /\ state[1].Password.state = "known"

\* C7: a resource Read answered with a status other than 200 ends with an
\* error diagnostic that carries the status and the uuid that was read, and
\* the record is not rewritten.
C7_ReadErrorCarriesStatusAndUuid ==
    [][(op' = "Read" /\ ~respAPI'.err /\ respAPI'.StatusCode # StatusOK) =>
        /\ HasError(diags')
        /\ Carries(diags', Status(respAPI'.StatusCode))
        /\ \/ Carries(diags', ValueString(state[1].UUID))
           \/ Carries(diags', String(state[1].UUID))
        /\ state' = state]_vars

\* C8: a Read answered 200 with a null body ends with an error diagnostic and
\* the resource stays in state with its prior record.
C8_VanishedIsAnError ==
    [][(op' = "Read" /\ ~respAPI'.err /\ respAPI'.StatusCode = StatusOK
            /\ respAPI'.JSON = <<>>)
        => (HasError(diags') /\ state' = state /\ state' # Absent)]_vars

\* a Read of a known uuid was answered 200 without a body
C8_Witness ==
    /\ op = "Read"
    /\ ~respAPI.err
    /\ respAPI.StatusCode = StatusOK
    /\ respAPI.JSON = <<>>
    /\ state # Absent
    /\ state[1].UUID.state = "known"
    /\ HasError(diags)

C10_DeleteIff200WithResult ==
    [][op' = "Delete" =>
        /\ state # Absent
        /\ Len(requests') = 1
        /\ IF EnvelopeOK(respAPI', StatusOK)
           THEN state' = Absent /\ ~HasError(diags')
           ELSE state' = state /\ HasError(diags')]_vars

\* a Delete answered 200 with a null result has kept the record
C10_Witness ==
    /\ op = "Delete"
    /\ respAPI.StatusCode = StatusOK
    /\ respAPI.JSON = EnvelopeNoResult
    /\ HasError(diags)
    /\ state # Absent

\* the last response carries a wire account
HasItem ==
    /\ ~respAPI.err
    /\ respAPI.JSON # <<>>
    /\ op # "Read" => respAPI.JSON[1].Result # <<>>

\* C11: Import of a bare uuid issues no HTTP request and leaves a record
\* whose uuid is the given one and whose other fields, password and
\* lastUpdated included, are all unset.
C11_ImportOnlyUuid ==
    op = "ImportState" =>
        /\ requests = <<>>
        /\ state # Absent
        /\ state[1].UUID = StringValue(req.ID)
        /\ \A f \in DOMAIN state[1] \ {"UUID"} : state[1][f].state = "null"

\* the uuid u2 has been imported
C11_Witness ==
    /\ op = "ImportState"
    /\ req.ID = "u2"
    /\ state # Absent
    /\ state[1].UUID.value = "u2"

\* C12: after a successful Create, Read or Update a list the response omits
\* is unset in the record and a list the response carries with no element
\* is set and empty.
C12_OmittedListIsUnset ==
    (op \in {"Create", "Read", "Update"} /\ Succeeded) =>
        /\ ResponseItem.Folders = <<>> => state[1].Folders = ListNull
        /\ ResponseItem.Folders = << <<>> >> => state[1].Folders = ListValue(<<>>)
        /\ ResponseItem.Permissions = <<>> => state[1].Permissions = ListNull
        /\ ResponseItem.Permissions = << <<>> >> => state[1].Permissions = ListValue(<<>>)

\* C13: a Create, Read or Update whose response carries an account without
\* uuid ends with an error, and no stored record has an empty uuid.
C13_MissingUuidIsAnError ==
    /\ (op \in {"Create", "Read", "Update"} /\ HasItem /\ ResponseItem.Uuid = "")
        => HasError(diags)
    /\ state # Absent => ValueString(state[1].UUID) # ""

\* C14: the Read or Update that follows a successful Create keeps the uuid
\* Create stored: when its response carries another uuid it ends with an
\* error and the record stays as it was.
C14_UuidImmutable ==
    [][(op = "Create" /\ state # Absent /\ op' \in {"Read", "Update"}) =>
        /\ state' # Absent
        /\ state'[1].UUID = state[1].UUID
        /\ (~respAPI'.err /\ respAPI'.JSON # <<>>
                /\ (op' = "Update" => respAPI'.JSON[1].Result # <<>>)
                /\ (IF op' = "Read" THEN respAPI'.JSON[1].Uuid
                    ELSE respAPI'.JSON[1].Result[1].Uuid) # state[1].UUID.value)
            => (HasError(diags') /\ state' = state)]_vars

\* the keys of the request body and the fields of the record they stand for
BodyField ==
    [description |-> "Description", dn |-> "DN", email |-> "Email",
     folders |-> "Folders", identifier |-> "Identifier", kind |-> "Kind",
     last_updated |-> "LastUpdated", local_auth |-> "LocalAuth",
     name |-> "Name", password |-> "Password",
     permissions |-> "Permissions", uuid |-> "UUID"]

RECURSIVE JoinJSON(_)
JoinJSON(elems) ==
    IF elems = <<>> THEN ""
    ELSE IF Len(elems) = 1 THEN "\"" \o elems[1].value \o "\""
    ELSE "\"" \o elems[1].value \o "\"," \o JoinJSON(Tail(elems))

\* the JSON text of a set value of the record
EncodeJSON(f, v) ==
    IF f = "LocalAuth" THEN (IF v.value THEN "true" ELSE "false")
    ELSE IF f \in {"Folders", "Permissions"} THEN "[" \o JoinJSON(v.elements) \o "]"
    ELSE "\"" \o v.value \o "\""

\* C15: the body Create and Update send has, for every field the record has
\* set, its key with its value, and no key for an unset field; the password
\* key is there exactly when the password is set.
C15_BodyHasExactlySetFields ==
    (op \in {"Create", "Update"}) =>
        LET body == requests[1].body
            data == plan[1]
        IN  \A k \in DOMAIN BodyField :
                IF data[BodyField[k]].state = "known"
                THEN k \in DOMAIN body
                     /\ body[k] = EncodeJSON(BodyField[k], data[BodyField[k]])
                ELSE k \notin DOMAIN body

(***************************************************************************)
(* AccountsDataSource.Read: the smc_accounts data source.                  *)
(***************************************************************************)
\* the zero value of AccountDataSourceModel: every field is null
ZeroAccountDataSourceModel ==
    [UUID |-> StringNull, Description |-> StringNull, DN |-> StringNull,
     Email |-> StringNull, Folders |-> ListNull, Identifier |-> StringNull,
     Kind |-> StringNull, LocalAuth |-> BoolNull, Name |-> StringNull,
     Permissions |-> ListNull]

readAccountDataSourceModel(data, item) ==
    [data EXCEPT
        !.Description = StringPointerValue(item.Description),
        !.DN          = StringPointerValue(item.Dn),
        !.Email       = StringPointerValue(item.Email),
        !.Folders     = IF item.Folders # <<>>
                        THEN StringList(item.Folders[1]) ELSE @,
        !.Identifier  = StringPointerValue(item.Identifier),
        !.Kind        = StringPointerValue(item.Kind),
        !.LocalAuth   = BoolPointerValue(item.LocalAuth),
        !.Name        = StringPointerValue(item.Name),
        !.Permissions = IF item.Permissions # <<>>
                        THEN StringList(item.Permissions[1]) ELSE @,
        !.UUID        = StringValue(item.Uuid)]

\* the elements a list response is made of
ListedAccounts == {TestAccount, OtherAccount, SparseAccount(<<>>, "u1")}

RECURSIVE AccountLists(_)
AccountLists(n) ==
    IF n = 0 THEN {<<>>}
    ELSE AccountLists(n - 1)
         \cup {Append(l, a) : l \in {k \in AccountLists(n - 1) : Len(k) = n - 1},
                              a \in ListedAccounts}

\* the {result, success} envelope of GET /accounts: both are pointers
ListEnvelopes ==
    {<<>>}
    \cup {<<[Result |-> r, Success |-> f]>> :
            r \in {<<>>} \cup {<<l>> : l \in AccountLists(MaxAccounts)},
            f \in {<<>>, <<FALSE>>, <<TRUE>>}}

ListResponses ==
    {TransportError} \cup {Response(c, j) : c \in Statuses, j \in ListEnvelopes}

\* mutant: an empty result passes
AccountsHasResults_AllowsEmpty(resp) ==
    /\ resp.JSON[1].Result # <<>>
    /\ resp.JSON[1].Success # <<>>
    /\ resp.JSON[1].Success[1]

AccountsHasResults(resp) ==
    /\ resp.JSON[1].Result # <<>>
    /\ Len(resp.JSON[1].Result[1]) # 0
    /\ resp.JSON[1].Success # <<>>
    /\ resp.JSON[1].Success[1]

\* mutant: every entry is projected from the first element
ProjectAccounts_FirstElement(result) ==
    [idx \in 1..Len(result) |->
        readAccountDataSourceModel(ZeroAccountDataSourceModel, result[1])]

\* the loop over the result: entry idx is projected from element idx
ProjectAccounts(result) ==
    [idx \in 1..Len(result) |->
        readAccountDataSourceModel(ZeroAccountDataSourceModel, result[idx])]

\* the diagnostics and resp.State the list read ends with; resp.State starts
\* null
AccountsReadOutcome(resp) ==
    IF resp.err
    THEN [diags |-> <<Diag("Error Reading SMC Accounts",
                           <<"Could not read SMC accounts: ", "err">>)>>,
          state |-> <<>>]
    ELSE IF resp.StatusCode # StatusOK \/ resp.JSON = <<>>
    THEN [diags |-> <<Diag("HTTP Error Reading SMC Accounts",
                           <<"HTTP status code ", Status(resp.StatusCode),
                             " returned while reading SMC accounts">>)>>,
          state |-> <<>>]
    ELSE IF ~AccountsHasResults(resp)
    THEN [diags |-> <<Diag("No results Reading SMC Accounts",
                           <<"No results returned while reading SMC accounts">>)>>,
          state |-> <<>>]
    ELSE [diags |-> <<>>,
          state |-> <<ProjectAccounts(resp.JSON[1].Result[1])>>]

AccountsRead(resp) ==
    /\ LET out == AccountsReadOutcome(resp) IN
        /\ accounts' = out.state
        /\ diags' = out.diags
    /\ requests' = <<Request("GET", <<"accounts">>, NoBody)>>
    /\ op' = "AccountsRead"
    /\ respAPI' = resp
    /\ req' = NoReq
    /\ UNCHANGED <<resourceVars, client, account, instances>>

DoAccountsRead == \E resp \in ListResponses : AccountsRead(resp) /\ UNCHANGED previous

NextAccounts == DoAccountsRead

SpecAccounts == Init /\ [][NextAccounts]_vars

\* C16: the accounts list read ends with an error and writes no list when
\* the status is not 200, the success flag is false or missing, the result
\* is null or the result is empty; no stored list is empty.
C16_ListErrors ==
    op = "AccountsRead" =>
        /\ (\/ respAPI.err
            \/ respAPI.StatusCode # StatusOK
            \/ respAPI.JSON = <<>>
            \/ respAPI.JSON[1].Success \in {<<>>, <<FALSE>>}
            \/ respAPI.JSON[1].Result \in {<<>>, << <<>> >>})
           => (HasError(diags) /\ accounts = <<>>)
        /\ accounts # <<>> => Len(accounts[1]) > 0

\* a list read answered 200 with {result: [], success: true} has failed
C16_Witness ==
    /\ op = "AccountsRead"
    /\ respAPI.StatusCode = StatusOK
    /\ respAPI.JSON # <<>>
    /\ respAPI.JSON[1].Success = <<TRUE>>
    /\ respAPI.JSON[1].Result = << <<>> >>
    /\ HasError(diags)
    /\ accounts = <<>>

\* the record an element of a list response alone determines
ListProjectionOf(item) ==
    [UUID        |-> StringValue(item.Uuid),
     Description |-> StringPointerValue(item.Description),
     DN          |-> StringPointerValue(item.Dn),
     Email       |-> StringPointerValue(item.Email),
     Folders     |-> IF item.Folders = <<>> THEN ListNull
                     ELSE StringList(item.Folders[1]),
     Identifier  |-> StringPointerValue(item.Identifier),
     Kind        |-> StringPointerValue(item.Kind),
     LocalAuth   |-> BoolPointerValue(item.LocalAuth),
     Name        |-> StringPointerValue(item.Name),
     Permissions |-> IF item.Permissions = <<>> THEN ListNull
                     ELSE StringList(item.Permissions[1])]

\* C17: a successful accounts list read stores as many entries as the
\* result has elements, in the result's order, entry i being the projection
\* of element i.
C17_ListProjectsEachElement ==
    (op = "AccountsRead" /\ Succeeded) =>
        LET result == respAPI.JSON[1].Result[1] IN
            /\ accounts # <<>>
            /\ Len(accounts[1]) = Len(result)
            /\ \A i \in 1..Len(result) : accounts[1][i] = ListProjectionOf(result[i])

\* a list of two accounts with different uuids and fields has been read
C17_Witness ==
    /\ op = "AccountsRead"
    /\ Succeeded
    /\ accounts # <<>>
    /\ Len(accounts[1]) = 2
    /\ accounts[1][1].UUID = StringValue("u2")
    /\ accounts[1][2].UUID = StringValue("u1")
    /\ accounts[1][2].Description = StringNull
    /\ accounts[1][1].Description # StringNull

(***************************************************************************)
(* SMCProvider: Configure, Resources and DataSources.                      *)
(***************************************************************************)
\* hostname and api_key of the provider block
ConfigValues ==
    {StringNull, StringUnknown, StringValue(""),
     StringValue("https://smc.example.com")}

\* os.Getenv of SMC_HOSTNAME and SMC_API_KEY: "" when the variable is not set
EnvValues == {"", "from-env"}

AttributeDiag(attribute, summary) ==
    [severity |-> "error", summary |-> summary, detail |-> <<attribute>>]

\* mutant: the environment wins over the configuration
ResolveHostname_EnvFirst(data, env) ==
    IF env.SMC_HOSTNAME # "" THEN env.SMC_HOSTNAME
    ELSE ValueString(data.Hostname)

ResolveHostname(data, env) ==
    IF ~IsNull(data.Hostname) THEN ValueString(data.Hostname)
    ELSE env.SMC_HOSTNAME

ResolveAPIKey(data, env) ==
    IF ~IsNull(data.APIKey) THEN ValueString(data.APIKey)
    ELSE env.SMC_API_KEY

\* mutant: an unknown api_key does not stop Configure
UnknownDiags_HostnameOnly(data) ==
    IF IsUnknown(data.Hostname)
    THEN <<AttributeDiag("hostname", "Unknown SMC hostname")>> ELSE <<>>

UnknownDiags(data) ==
    (IF IsUnknown(data.Hostname)
     THEN <<AttributeDiag("hostname", "Unknown SMC hostname")>> ELSE <<>>)
    \o (IF IsUnknown(data.APIKey)
        THEN <<AttributeDiag("api_key", "Unknown API Key hostname")>> ELSE <<>>)

\* the second check tests the hostname for "" and the api key for unknown
MissingDiags(data, hostname, apiKey) ==
    (IF hostname = ""
     THEN <<AttributeDiag("hostname", "Missing SMC hostname")>> ELSE <<>>)
    \o (IF IsUnknown(data.APIKey)
        THEN <<AttributeDiag("api_key", "Missing SMC API Key")>> ELSE <<>>)

\* the diagnostics and resp.ResourceData / resp.DataSourceData Configure ends
\* with; newErr is the error of smc.NewSMCClientWithResponses, getenv and
\* constructed tell whether os.Getenv and the constructor were called
ConfigureOutcome(data, env, newErr) ==
    IF HasError(UnknownDiags(data))
    THEN [diags |-> UnknownDiags(data), client |-> <<>>,
          getenv |-> FALSE, constructed |-> FALSE]
    ELSE LET hostname == ResolveHostname(data, env)
             apiKey == ResolveAPIKey(data, env)
             ds == MissingDiags(data, hostname, apiKey)
         IN  IF HasError(ds)
             THEN [diags |-> ds, client |-> <<>>,
                   getenv |-> TRUE, constructed |-> FALSE]
             ELSE IF newErr
             THEN [diags |-> <<Diag("Unable to Create SMC Client",
                                    <<"SMC Client Error: ", "err">>)>>,
                   client |-> <<>>, getenv |-> TRUE, constructed |-> TRUE]
             ELSE [diags |-> <<>>,
                   client |-> <<[hostname |-> hostname, apiKey |-> apiKey]>>,
                   getenv |-> TRUE, constructed |-> TRUE]

Configure(data, env, newErr) ==
    /\ LET out == ConfigureOutcome(data, env, newErr) IN
        /\ diags' = out.diags
        /\ client' = out.client
        /\ req' = [ID |-> "", data |-> data, env |-> env, newErr |-> newErr,
                   getenv |-> out.getenv, constructed |-> out.constructed]
    /\ op' = "Configure"
    /\ requests' = <<>>
    /\ respAPI' = NoResponse
    /\ UNCHANGED <<resourceVars, accounts, account, instances>>

DoConfigure ==
    \E h \in ConfigValues, k \in ConfigValues, eh \in EnvValues,
       ek \in EnvValues, newErr \in BOOLEAN :
        Configure([Hostname |-> h, APIKey |-> k],
                  [SMC_HOSTNAME |-> eh, SMC_API_KEY |-> ek], newErr)
        /\ UNCHANGED previous

\* SMCProvider.Metadata and the Metadata of the resource and data sources
ProviderTypeName == "smc"
AccountResourceTypeName == ProviderTypeName \o "_account"
AccountDataSourceTypeName == ProviderTypeName \o "_account"
AccountsDataSourceTypeName == ProviderTypeName \o "_accounts"

\* the type names of the constructors SMCProvider.Resources returns: none
Resources == {}

\* the type names of the constructors SMCProvider.DataSources returns
DataSources == {AccountDataSourceTypeName, AccountsDataSourceTypeName}

TypeNames == {"smc_account", "smc_accounts", "smc_group"}

\* a configuration declares a block of a type: the type is looked up among
\* those the provider returned
Declare(kind, typeName) ==
    /\ op' = kind
    /\ req' = [ID |-> "", TypeName |-> typeName]
    /\ diags' = IF typeName \in (IF kind = "DeclareResource" THEN Resources
                                 ELSE DataSources)
                THEN <<>>
                ELSE <<Diag("Invalid type", <<typeName>>)>>
    /\ requests' = <<>>
    /\ respAPI' = NoResponse
    /\ UNCHANGED <<resourceVars, accounts, client, account, instances>>

DoDeclareResource ==
    \E t \in TypeNames : Declare("DeclareResource", t) /\ UNCHANGED previous

DoDeclareDataSource ==
    \E t \in TypeNames : Declare("DeclareDataSource", t) /\ UNCHANGED previous

NextProvider == DoConfigure \/ DoDeclareResource \/ DoDeclareDataSource

SpecProvider == Init /\ [][NextProvider]_vars

\* neither the configuration nor the environment gives a value
Missing(v, e) == IsNull(v) /\ e = ""

\* C18: Configure takes hostname and api_key from the configuration when
\* non-null and from the environment otherwise; when hostname or api_key has
\* neither, Configure ends with an error and publishes no client.
C18_ConfigureResolution ==
    op = "Configure" =>
        /\ (\/ Missing(req.data.Hostname, req.env.SMC_HOSTNAME)
            \/ Missing(req.data.APIKey, req.env.SMC_API_KEY))
           => (HasError(diags) /\ client = <<>>)
        /\ client # <<>> =>
            /\ client[1].hostname =
                (IF ~IsNull(req.data.Hostname) THEN req.data.Hostname.value
                 ELSE req.env.SMC_HOSTNAME)
            /\ client[1].apiKey =
                (IF ~IsNull(req.data.APIKey) THEN req.data.APIKey.value
                 ELSE req.env.SMC_API_KEY)

\* C20: a configuration that declares resource "smc_account", or one of the
\* data sources smc_account and smc_accounts, finds the type in the provider.
C20_ResourceExposed ==
    /\ (op = "DeclareResource" /\ req.TypeName = "smc_account") => ~HasError(diags)
    /\ (op = "DeclareDataSource" /\ req.TypeName \in {"smc_account", "smc_accounts"})
        => ~HasError(diags)

(***************************************************************************)
(* AccountResource.Schema: the validators of kind, password and            *)
(* permissions, which the framework runs on a configuration before it is   *)
(* planned and applied.                                                    *)
(***************************************************************************)
ValidatorDiag(attribute, value) ==
    [severity |-> "error", summary |-> "Invalid Attribute Value",
     detail |-> <<attribute, value>>]

\* stringvalidator.OneOf: null and unknown values are not validated
OneOf(v, values) == v.state # "known" \/ v.value \in values

KindValues == {"user", "group"}
PermissionValues == {"smc", "sns", "console", "ssh", "api"}

\* mutant: the validator of kind accepts any string
KindValidator_AcceptsAny(v) == TRUE

KindValidator(v) == OneOf(v, KindValues)

\* regexp ^\$2[ayb]\$.{56}$ : '.' is any character but a newline
RegexMatches(s) ==
    /\ Len(s) = 60
    /\ SubSeq(s, 1, 2) = "$2"
    /\ SubSeq(s, 3, 3) \in {"a", "y", "b"}
    /\ SubSeq(s, 4, 4) = "$"
    /\ \A i \in 5..60 : SubSeq(s, i, i) # "\n"

PasswordValidator(v) == v.state # "known" \/ RegexMatches(v.value)

\* listvalidator.ValueStringsAre(stringvalidator.OneOf(...))
PermissionsValidator(l) ==
    l.state # "known"
    \/ \A i \in 1..Len(l.elements) : OneOf(l.elements[i], PermissionValues)

ValidateDiags(config) ==
    (IF KindValidator(config.Kind) THEN <<>>
     ELSE <<ValidatorDiag("kind", config.Kind.value)>>)
    \o (IF PasswordValidator(config.Password) THEN <<>>
        ELSE <<ValidatorDiag("password", "(sensitive)")>>)
    \o (IF PermissionsValidator(config.Permissions) THEN <<>>
        ELSE <<ValidatorDiag("permissions", "element")>>)

\* configurations with valid and invalid kind, permissions and password
CandidateKinds == {StringNull, StringValue("user"), StringValue("admin")}
CandidatePermissions ==
    {ListNull, StringList(<<"smc", "api">>), StringList(<<"smc", "root">>)}
CandidatePasswords ==
    {StringNull, StringValue(TestPassword), StringValue("hunter2"),
     StringValue("$2x$10$HM7zy3pUuoyKwnaFk4A4W.9gLQZ3BGWeJqwdlPiOJN6TayLbSQ1Na")}

CandidatePlans ==
    {[PlanOf(StringValue("some user description"), ListNull, p)
        EXCEPT !.Kind = k, !.Permissions = l] :
        k \in CandidateKinds, l \in CandidatePermissions, p \in CandidatePasswords}

\* the runtime validates the configuration of the resource
ValidateConfig(config) ==
    /\ diags' = ValidateDiags(config)
    /\ plan' = <<config>>
    /\ op' = "ValidateConfig"
    /\ req' = NoReq
    /\ requests' = <<>>
    /\ respAPI' = NoResponse
    /\ UNCHANGED <<state, now, accounts, client, account, instances>>

DoValidateConfig ==
    \E config \in CandidatePlans : ValidateConfig(config) /\ UNCHANGED previous

ApplyResponses(ok) ==
    {Response(ok, Envelope(TestAccount)), Response(StatusNotFound, <<>>)}

\* a configuration that passed validation is applied: Create when there is
\* no record, Update when there is one
Validated == op = "ValidateConfig" /\ ~HasError(diags)

DoApplyCreate ==
    /\ Validated
    /\ \E resp \in ApplyResponses(StatusCreated), t \in ClockReadings :
        Create(plan[1], resp, t) /\ UNCHANGED previous

DoApplyUpdate ==
    /\ Validated
    /\ \E resp \in ApplyResponses(StatusOK), t \in ClockReadings :
        Update(plan[1], resp, t) /\ UNCHANGED previous

NextValidate == DoValidateConfig \/ DoApplyCreate \/ DoApplyUpdate

SpecValidate == Init /\ [][NextValidate]_vars

BcryptShaped(s) ==
    /\ Len(s) = 60
    /\ SubSeq(s, 1, 4) \in {"$2a$", "$2y$", "$2b$"}

\* the record holds to the enum and format rules of the schema
WellFormed(data) ==
    /\ data.Kind.state = "known" => data.Kind.value \in {"user", "group"}
    /\ data.Permissions.state = "known" =>
        \A i \in 1..Len(data.Permissions.elements) :
            data.Permissions.elements[i].value \in {"smc", "sns", "console", "ssh", "api"}
    /\ data.Password.state = "known" => BcryptShaped(data.Password.value)

\* C19: a configuration whose kind, permissions or password breaks the
\* rules is rejected with an error and without an HTTP request, and Create
\* and Update send requests for well-formed records only.
C19_RejectedBeforeRequest ==
    /\ (op = "ValidateConfig" /\ ~WellFormed(plan[1]))
        => (HasError(diags) /\ requests = <<>>)
    /\ (op \in {"Create", "Update"} /\ requests # <<>>) => WellFormed(plan[1])

\* the kind "admin" has been rejected without a request
C19_Witness ==
    /\ op = "ValidateConfig"
    /\ plan[1].Kind = StringValue("admin")
    /\ plan[1].Password = StringValue(TestPassword)
    /\ plan[1].Permissions = StringList(<<"smc", "api">>)
    /\ HasError(diags)
    /\ requests = <<>>

(***************************************************************************)
(* The round trip of a record: json.Marshal of the AccountResourceModel,   *)
(* the body decoded as the wire account, readAccountResourceModel of it.   *)
(***************************************************************************)
\* the value of a key of a JSON object, null when the key is not there
Field(body, k) == IF k \in DOMAIN body THEN body[k] ELSE "null"

\* json.Unmarshal into *string: a JSON string sets the pointer, anything
\* else leaves it nil
DecodeString(text) ==
    IF Len(text) >= 2 /\ SubSeq(text, 1, 1) = "\""
    THEN <<SubSeq(text, 2, Len(text) - 1)>>
    ELSE <<>>

\* json.Unmarshal into *bool
DecodeBool(text) ==
    IF text = "true" THEN <<TRUE>>
    ELSE IF text = "false" THEN <<FALSE>>
    ELSE <<>>

\* the elements of "a","b",...
RECURSIVE SplitJSON(_)
SplitJSON(s) ==
    IF Len(s) < 2 THEN <<>>
    ELSE LET close == CHOOSE i \in 2..Len(s) :
                        /\ SubSeq(s, i, i) = "\""
                        /\ \A j \in 2..(i - 1) : SubSeq(s, j, j) # "\""
         IN  <<SubSeq(s, 2, close - 1)>> \o SplitJSON(SubSeq(s, close + 2, Len(s)))

\* json.Unmarshal into *[]string
DecodeList(text) ==
    IF Len(text) >= 2 /\ SubSeq(text, 1, 1) = "["
    THEN <<SplitJSON(SubSeq(text, 2, Len(text) - 1))>>
    ELSE <<>>

\* the wire account a JSON object decodes to: the keys are those of the
\* remote API, localAuth in camel case; uuid is a plain string
UnmarshalWire(body) ==
    [Description |-> DecodeString(Field(body, "description")),
     Dn          |-> DecodeString(Field(body, "dn")),
     Email       |-> DecodeString(Field(body, "email")),
     Folders     |-> DecodeList(Field(body, "folders")),
     Identifier  |-> DecodeString(Field(body, "identifier")),
     Kind        |-> DecodeString(Field(body, "kind")),
     LocalAuth   |-> DecodeBool(Field(body, "localAuth")),
     Name        |-> DecodeString(Field(body, "name")),
     Permissions |-> DecodeList(Field(body, "permissions")),
     Uuid        |-> IF DecodeString(Field(body, "uuid")) = <<>> THEN ""
                     ELSE DecodeString(Field(body, "uuid"))[1]]

\* records with every field set
FullRecords ==
    {[PlanOf(d, f, StringValue(TestPassword))
        EXCEPT !.UUID = StringValue(u), !.LastUpdated = StringValue(l),
               !.LocalAuth = BoolValue(b), !.Permissions = p] :
        d \in PlanDescriptions, f \in {StringList(<<"f1">>), StringList(<<"f1", "f2">>)},
        u \in Uuids, l \in {FormatRFC850(t) : t \in 0..MaxNow},
        b \in BOOLEAN, p \in {StringList(<<"smc">>), StringList(<<"smc", "api">>)}}

\* a record is written out as Create and Update write it, and what was
\* written is decoded and projected back into the record
RoundTrip(data, t) ==
    /\ state' = Present(readAccountResourceModel(data, UnmarshalWire(JSONMarshal(data)), t))
    /\ plan' = <<data>>
    /\ now' = t
    /\ op' = "RoundTrip"
    /\ diags' = <<>>
    /\ requests' = <<>>
    /\ respAPI' = NoResponse
    /\ req' = NoReq
    /\ UNCHANGED <<accounts, client, account, instances>>

DoRoundTrip ==
    \E data \in FullRecords, t \in ClockReadings :
        RoundTrip(data, t) /\ UNCHANGED previous

NextRoundTrip == DoRoundTrip

SpecRoundTrip == Init /\ [][NextRoundTrip]_vars

\* C21: a record with every field set, written out in the wire shape and
\* projected back, is the record it was in every field but password.
C21_RoundTrip ==
    op = "RoundTrip" =>
        \A f \in DOMAIN plan[1] \ {"Password"} : state[1][f] = plan[1][f]

(***************************************************************************)
(* The lifecycle of one resource instance with the operation before the    *)
(* last one kept: what the record, the response and the diagnostics were   *)
(* when the last operation was called.                                     *)
(***************************************************************************)
Track ==
    previous' = <<[op |-> op, state |-> state, respAPI |-> respAPI,
                   diags |-> diags, requests |-> requests]>>

\* the account of the test double with its folders in another order
ReorderedAccount ==
    FullAccount("some user description", << <<"f2", "f1">> >>, "u1")

LifecyclePlans ==
    {PlanOf(StringValue("some user description"), StringList(<<"f1">>), p) :
        p \in PlanPasswords}

LifecycleReads ==
    {TransportError, Response(StatusNotFound, <<>>), Response(StatusOK, <<>>)}
    \cup {Response(StatusOK, <<a>>) :
            a \in {TestAccount, ReorderedAccount, SparseAccount(<<>>, "u1")}}

TrackedCreate ==
    \E data \in LifecyclePlans, resp \in ApplyResponses(StatusCreated),
       t \in ClockReadings :
        Create(data, resp, t) /\ Track

TrackedRead ==
    \E resp \in LifecycleReads, t \in ClockReadings : Read(resp, t) /\ Track

TrackedUpdate ==
    \E data \in LifecyclePlans, resp \in ApplyResponses(StatusOK),
       t \in ClockReadings :
        Update(data, resp, t) /\ Track

TrackedDelete == \E resp \in ApplyResponses(StatusOK) : Delete(resp) /\ Track

NextLifecycle == TrackedCreate \/ TrackedRead \/ TrackedUpdate \/ TrackedDelete

SpecLifecycle == Init /\ [][NextLifecycle]_vars

\* the last two operations were successful Reads answered alike
ReadTwice ==
    /\ op = "Read"
    /\ Succeeded
    /\ previous # <<>>
    /\ previous[1].op = "Read"
    /\ ~HasError(previous[1].diags)
    /\ previous[1].respAPI = respAPI

\* C22: of two successive successful Reads of a resource, answered with the
\* same account, the second leaves the record the first left in every field
\* but lastUpdated.
C22_ReadIdempotent ==
    ReadTwice =>
        \A f \in DOMAIN state[1] \ {"LastUpdated"} :
            state[1][f] = previous[1].state[1][f]

\* a sparse account was read twice, a second apart
C22_Witness ==
    /\ ReadTwice
    /\ respAPI.JSON[1].Description = <<>>
    /\ state[1].LastUpdated # previous[1].state[1].LastUpdated
    /\ state[1].Folders = previous[1].state[1].Folders
    /\ state[1].Folders.state = "known"

\* C23: the Read, Update or Delete that follows a successful Create targets
\* /accounts/{u}, u being the uuid of the Create response as it is, neither
\* quoted nor the placeholder of an unknown value.
C23_PathIsCreatedUuid ==
    (/\ op \in {"Read", "Update", "Delete"}
     /\ previous # <<>>
     /\ previous[1].op = "Create"
     /\ ~HasError(previous[1].diags))
    => requests = <<Request(requests[1].method,
                            <<"accounts", previous[1].respAPI.JSON[1].Result[1].Uuid>>,
                            requests[1].body)>>

(***************************************************************************)
(* AccountDataSource.Read: the smc_account data source.                    *)
(***************************************************************************)
\* the configuration of the data source: identifier is required, the other
\* attributes are computed and null in the configuration
ConfigOf(identifier) ==
    [ZeroAccountDataSourceModel EXCEPT !.Identifier = StringValue(identifier)]

Identifiers == {"jdoe", "asmith", "u1", "75532250-c878-42f1-8871-bafa68e944d4", ""}

\* the accounts the remote may answer with: those of the resource, and the
\* ones with all fields under another identifier
DataSourceAccounts ==
    Accounts
    \cup {[a EXCEPT !.Identifier = <<"asmith">>] : a \in {b \in Accounts : b.Identifier # <<>>}}

DataSourceResponses ==
    {TransportError}
    \cup {Response(s, j) : s \in Statuses, j \in {<<>>, <<TestAccount>>}}
    \cup {Response(StatusOK, <<a>>) : a \in DataSourceAccounts}

\* mutant: a 200 without a body is not reported
MissingResultDiags_Silent(data) == <<>>

\* a 200 without a body: reported when the identifier is not null
MissingResultDiags(data) ==
    IF ~IsNull(data.Identifier)
    THEN <<Diag("No results Reading SMC Account",
                <<"No results returned for given identifier: ",
                  ValueString(data.Identifier)>>)>>
    ELSE <<>>

\* mutant: the identifier of the configuration is kept
DataSourceProjection_KeepsIdentifier(data, item) ==
    [readAccountDataSourceModel(data, item) EXCEPT !.Identifier = data.Identifier]

\* the record the read stores for a body
DataSourceProjection(data, item) == readAccountDataSourceModel(data, item)

\* the diagnostics and resp.State the read ends with; resp.State starts null
DataSourceReadOutcome(data, resp) ==
    IF resp.err
    THEN [diags |-> <<Diag("Error Reading SMC Account",
                           <<"Could not read SMC account identifier ",
                             ValueString(data.Identifier), ": ", "err">>)>>,
          state |-> <<>>]
    ELSE IF resp.StatusCode # StatusOK
    THEN [diags |-> <<Diag("HTTP Error Reading SMC Account",
                           <<"HTTP status code ", Status(resp.StatusCode),
                             " returned for SMC account identifier ",
                             ValueString(data.Identifier)>>)>>,
          state |-> <<>>]
    ELSE IF resp.JSON = <<>>
    THEN [diags |-> MissingResultDiags(data), state |-> <<>>]
    ELSE [diags |-> <<>>, state |-> <<DataSourceProjection(data, resp.JSON[1])>>]

DataSourceRead(data, resp) ==
    /\ LET out == DataSourceReadOutcome(data, resp) IN
        /\ account' = out.state
        /\ diags' = out.diags
    /\ requests' = <<Request("GET", <<"accounts", ValueString(data.Identifier)>>, NoBody)>>
    /\ op' = "DataSourceRead"
    /\ respAPI' = resp
    /\ req' = [ID |-> "", config |-> data]
    /\ UNCHANGED <<resourceVars, accounts, client, instances>>

DoDataSourceRead ==
    \E i \in Identifiers, resp \in DataSourceResponses :
        DataSourceRead(ConfigOf(i), resp) /\ UNCHANGED previous

NextAccount == DoDataSourceRead

SpecAccount == Init /\ [][NextAccount]_vars

\* C28: the read of the smc_account data source sends GET /accounts/{x}, x
\* being the identifier of the configuration; when it succeeds the stored
\* identifier is the one of the remote account, unset when the account has
\* none, and the stored uuid is the account's.
C28_DataSourceReadByIdentifier ==
    op = "DataSourceRead" =>
        /\ requests = <<Request("GET", <<"accounts", req.config.Identifier.value>>, NoBody)>>
        /\ Succeeded =>
            /\ account # <<>>
            /\ account[1].Identifier =
                (IF respAPI.JSON[1].Identifier = <<>> THEN StringNull
                 ELSE StringValue(respAPI.JSON[1].Identifier[1]))
            /\ account[1].UUID = StringValue(respAPI.JSON[1].Uuid)

\* the account asked as jdoe has come back without an identifier
C28_Witness ==
    /\ op = "DataSourceRead"
    /\ Succeeded
    /\ req.config.Identifier = StringValue("jdoe")
    /\ respAPI.JSON[1].Identifier = <<>>
    /\ account # <<>>
    /\ account[1].Identifier = StringNull
    /\ account[1].UUID = StringValue("u1")

(***************************************************************************)
(* The operations of the resource and of the two data sources side by      *)
(* side: each is one call of the runtime.                                  *)
(***************************************************************************)
OperationListResponses ==
    {TransportError, Response(StatusNotFound, <<>>),
     Response(StatusOK, <<[Result |-> << <<>> >>, Success |-> <<TRUE>>]>>),
     Response(StatusOK, <<[Result |-> << <<TestAccount>> >>, Success |-> <<TRUE>>]>>)}

OperationReads ==
    {TransportError, Response(StatusNotFound, <<>>), Response(StatusOK, <<>>),
     Response(StatusOK, <<TestAccount>>)}

OpCreate ==
    \E data \in LifecyclePlans,
       resp \in ApplyResponses(StatusCreated) \cup {TransportError},
       t \in ClockReadings :
        Create(data, resp, t) /\ UNCHANGED previous

OpRead ==
    \E resp \in LifecycleReads, t \in ClockReadings :
        Read(resp, t) /\ UNCHANGED previous

OpUpdate ==
    \E data \in LifecyclePlans,
       resp \in ApplyResponses(StatusOK) \cup {TransportError},
       t \in ClockReadings :
        Update(data, resp, t) /\ UNCHANGED previous

OpDelete == \E resp \in BaseEnvelopeResponses : Delete(resp) /\ UNCHANGED previous

OpAccountsRead ==
    \E resp \in OperationListResponses : AccountsRead(resp) /\ UNCHANGED previous

OpDataSourceRead ==
    \E resp \in OperationReads :
        DataSourceRead(ConfigOf("jdoe"), resp) /\ UNCHANGED previous

NextOperations ==
    OpCreate \/ OpRead \/ OpUpdate \/ OpDelete \/ OpAccountsRead \/ OpDataSourceRead

SpecOperations == Init /\ [][NextOperations]_vars

Operations ==
    {"Create", "Read", "Update", "Delete", "AccountsRead", "DataSourceRead"}

\* C24: a call of Create, Read, Update, Delete, the single-account read or
\* the list read issues at most one HTTP request, whether it fails or not.
C24_AtMostOneRequest ==
    op \in Operations => Len(requests) <= 1

\* a Delete that failed on the transport has issued its request once
C24_Witness ==
    /\ op = "Delete"
    /\ respAPI = TransportError
    /\ HasError(diags)
    /\ Len(requests) = 1
    /\ requests[1].method = "DELETE"

\* C25: a call that ends without an error diagnostic has stored the record
\* (or list) projected from its response; Delete has removed the record.
C25_NoSilentFailure ==
    /\ (op \in {"Create", "Read", "Update"} /\ Succeeded) =>
        /\ HasItem
        /\ state # Absent
        /\ state[1].UUID = StringValue(ResponseItem.Uuid)
        /\ state[1].LastUpdated = StringValue(FormatRFC850(now))
    /\ (op = "Delete" /\ Succeeded) => state = Absent
    /\ (op = "AccountsRead" /\ Succeeded) =>
        /\ accounts # <<>>
        /\ Len(accounts[1]) = Len(respAPI.JSON[1].Result[1])
    /\ (op = "DataSourceRead" /\ Succeeded) =>
        /\ respAPI.JSON # <<>>
        /\ account # <<>>
        /\ account[1].UUID = StringValue(respAPI.JSON[1].Uuid)

\* a single-account read answered 200 without a body has ended with an
\* error and stored nothing
C25_Witness ==
    /\ op = "DataSourceRead"
    /\ respAPI = Response(StatusOK, <<>>)
    /\ HasError(diags)
    /\ account = <<>>

\* the lists s and t hold the same elements, each as often
SameElements(s, t) ==
    /\ Len(s) = Len(t)
    /\ \A x \in {s[i] : i \in 1..Len(s)} \cup {t[i] : i \in 1..Len(t)} :
        Cardinality({i \in 1..Len(s) : s[i] = x})
            = Cardinality({i \in 1..Len(t) : t[i] = x})

\* C26: a successful Read whose response carries the folders of the stored
\* record in another order leaves the folders of the record as they were.
C26_ReorderIsNoDrift ==
    (/\ op = "Read"
     /\ Succeeded
     /\ previous # <<>>
     /\ previous[1].state # Absent
     /\ previous[1].state[1].Folders.state = "known"
     /\ respAPI.JSON[1].Folders # <<>>
     /\ SameElements(previous[1].state[1].Folders.elements,
                     StringList(respAPI.JSON[1].Folders[1]).elements))
    => state[1].Folders = previous[1].state[1].Folders

(***************************************************************************)
(* The lifecycle of a resource whose DELETE the remote always refuses.     *)
(***************************************************************************)
\* the answers to DELETE with a status other than 200
RefusedDeletes ==
    {Response(s, j) : s \in Statuses \ {StatusOK},
                      j \in {<<>>, EnvelopeNoResult, Envelope(TestAccount)}}

RefusedDelete == \E resp \in RefusedDeletes : Delete(resp) /\ Track

NextDeleteRefused == TrackedCreate \/ TrackedRead \/ TrackedUpdate \/ RefusedDelete

SpecDeleteRefused == Init /\ [][NextDeleteRefused]_vars

\* C29: when every DELETE is answered with a status other than 200, a
\* resource that is Present stays Present, however often Delete is called.
C29_RefusedDeleteNeverRemoves ==
    [][state # Absent => state' # Absent]_vars

\* Delete has been called twice in a row on a resource the remote no longer
\* has, and the record is still there
C29_Witness ==
    /\ op = "Delete"
    /\ respAPI.StatusCode = StatusNotFound
    /\ previous # <<>>
    /\ previous[1].op = "Delete"
    /\ previous[1].respAPI.StatusCode = StatusNotFound
    /\ HasError(diags)
    /\ state # Absent
    /\ state = previous[1].state

\* C30: Configure publishes a client exactly when it ends without an error
\* diagnostic; an unknown hostname or api_key ends it with an error before
\* the environment is read or a client is constructed, and a failed
\* construction publishes no client.
C30_ClientIffNoError ==
    op = "Configure" =>
        /\ (client # <<>>) <=> ~HasError(diags)
        /\ (IsUnknown(req.data.Hostname) \/ IsUnknown(req.data.APIKey)) =>
            /\ HasError(diags)
            /\ ~req.getenv
            /\ ~req.constructed
            /\ client = <<>>
        /\ (req.constructed /\ req.newErr) => (HasError(diags) /\ client = <<>>)

\* Configure with a known hostname and an unknown api_key has stopped short
\* of the environment, which has both variables
C30_Witness ==
    /\ op = "Configure"
    /\ req.data.Hostname = StringValue("https://smc.example.com")
    /\ IsUnknown(req.data.APIKey)
    /\ req.env = [SMC_HOSTNAME |-> "from-env", SMC_API_KEY |-> "from-env"]
    /\ HasError(diags)
    /\ ~req.getenv
    /\ client = <<>>

(***************************************************************************)
(* Two resource instances served by one AccountResource: the runtime calls *)
(* their operations concurrently, one at a time for each instance.  An     *)
(* operation begins when the handler has read its plan or state into its   *)
(* local data and ends when the client call has returned.                  *)
(***************************************************************************)
InstanceResponses(opName) ==
    IF opName = "Read"
    THEN {Response(StatusOK, <<TestAccount>>), Response(StatusOK, <<OtherAccount>>),
          Response(StatusNotFound, <<>>)}
    ELSE {Response(IF opName = "Create" THEN StatusCreated ELSE StatusOK, Envelope(a)) :
            a \in {TestAccount, OtherAccount}}
         \cup {Response(StatusNotFound, <<>>)}

\* mutant: the handlers keep data in a field of the AccountResource, which
\* the invocation begun last has overwritten
InvocationData_Shared(i) == plan[1]

\* data is a local variable of the handler
InvocationData(i) == instances[i].call[1].data

\* what a handler ends with, given the record before it, its data, the
\* response and the clock
InvocationOutcome(opName, before, data, resp, t) ==
    IF opName = "Create" THEN CreateOutcome(data, resp, t)
    ELSE IF opName = "Read" THEN ReadOutcome(data, resp, t)
    ELSE IF opName = "Update" THEN UpdateOutcome(before, data, resp, t)
    ELSE [diags |-> DeleteDiags(data, resp),
          state |-> IF HasError(DeleteDiags(data, resp)) THEN before ELSE Absent]

\* the configuration of each resource block: the first has a password, the
\* second has none
InstancePlan(i) ==
    PlanOf(StringValue("some user description"), StringList(<<"f1">>),
           IF i = 1 THEN StringValue(TestPassword) ELSE StringNull)

\* the runtime calls an operation of instance i: Create and Update read the
\* plan, Read and Delete the stored record
Begin(i, opName, data) ==
    /\ instances[i].call = <<>>
    /\ IF opName = "Create" THEN instances[i].state = Absent
       ELSE instances[i].state # Absent
    /\ data = IF opName \in {"Create", "Update"} THEN InstancePlan(i)
              ELSE instances[i].state[1]
    /\ instances' = [instances EXCEPT ![i].call = <<[op |-> opName, data |-> data]>>]
    /\ op' = "Begin"
    /\ plan' = <<data>>
    /\ req' = [ID |-> "", instance |-> i]
    /\ diags' = <<>>
    /\ requests' = <<>>
    /\ respAPI' = NoResponse
    /\ UNCHANGED <<state, now, accounts, client, account, previous>>

\* the client call of the operation of instance i returns
End(i, resp, t) ==
    /\ instances[i].call # <<>>
    /\ LET c == instances[i].call[1]
           out == InvocationOutcome(c.op, instances[i].state, InvocationData(i), resp, t)
           ref == InvocationOutcome(c.op, instances[i].alone.state,
                                    IF c.op \in {"Create", "Update"} THEN c.data
                                    ELSE instances[i].alone.state[1],
                                    resp, t)
       IN  /\ instances' = [instances EXCEPT
                               ![i] = [state |-> out.state, diags |-> out.diags,
                                       call |-> <<>>,
                                       alone |-> [state |-> ref.state,
                                                  diags |-> ref.diags]]]
           /\ diags' = out.diags
           /\ ClockRead(out.diags, t)
    /\ op' = "End"
    /\ req' = [ID |-> "", instance |-> i]
    /\ respAPI' = resp
    /\ requests' = <<>>
    /\ UNCHANGED <<state, plan, accounts, client, account, previous>>

DoBegin ==
    \E i \in InstanceIds, opName \in {"Create", "Read", "Update", "Delete"} :
        \E data \in {InstancePlan(i)}
                    \cup {instances[i].state[k] : k \in 1..Len(instances[i].state)} :
            Begin(i, opName, data)

DoEnd ==
    \E i \in InstanceIds :
        \E resp \in (IF instances[i].call = <<>> THEN {}
                     ELSE InstanceResponses(instances[i].call[1].op)),
           t \in ClockReadings :
            End(i, resp, t)

NextInstances == DoBegin \/ DoEnd

SpecInstances == Init /\ [][NextInstances]_vars

\* C27: however the operations of two instances interleave, each instance
\* has the record and the diagnostics its own operations give when they run
\* alone.
C27_InstancesIndependent ==
    \A i \in InstanceIds :
        /\ instances[i].state = instances[i].alone.state
        /\ instances[i].diags = instances[i].alone.diags

\* an Update of instance 1 has ended while a Delete of instance 2, begun
\* after it, is still running, and the two records differ
C27_Witness ==
    /\ op = "End"
    /\ req.instance = 1
    /\ instances[1].state # Absent
    /\ instances[2].call # <<>>
    /\ instances[2].call[1].op = "Delete"
    /\ plan = <<instances[2].call[1].data>>
    /\ instances[2].state # Absent
    /\ instances[1].state[1].UUID # instances[2].state[1].UUID
    /\ instances[1].state[1].Password # instances[2].state[1].Password

====
